---- MODULE Spec2Model ----
(***************************************************************************)
(* A model of firehose-lambda-rs (src/main.rs): a Kinesis Firehose         *)
(* transformation lambda that rewrites Apache access-log lines as JSON.    *)
(*                                                                         *)
(* Representation.  A Vec<u8> is a sequence of integers 0..255.  A Rust    *)
(* String / &str is the sequence of its Unicode scalar values (integers).  *)
(* A Result is a record with a boolean field ok.                           *)
(***************************************************************************)
EXTENDS Integers, Sequences, FiniteSets, TLC

(***************************************************************************)
(* Text literals                                                           *)
(***************************************************************************)

\* The printable ASCII characters U+0020 .. U+005F and U+0061 .. U+007E, in
\* code order (a TLA+ string cannot hold U+0060).
AsciiLow  == " !\"#$%&'()*+,-./0123456789:;<=>?@ABCDEFGHIJKLMNOPQRSTUVWXYZ[\\]^_"
AsciiHigh == "abcdefghijklmnopqrstuvwxyz{|}~"

\* The scalar value of each of these characters.
Ord == [c \in {SubSeq(AsciiLow, i, i) : i \in 1..Len(AsciiLow)}
              \cup {SubSeq(AsciiHigh, i, i) : i \in 1..Len(AsciiHigh)} |->
          IF \E i \in 1..Len(AsciiLow) : SubSeq(AsciiLow, i, i) = c
          THEN 31 + (CHOOSE i \in 1..Len(AsciiLow) : SubSeq(AsciiLow, i, i) = c)
          ELSE 96 + (CHOOSE i \in 1..Len(AsciiHigh) : SubSeq(AsciiHigh, i, i) = c)]

\* A string literal of the source as a sequence of scalar values; for ASCII
\* text this is also its UTF-8 byte sequence.
Str(t) == [i \in 1..Len(t) |-> Ord[SubSeq(t, i, i)]]

Min(a, b) == IF a <= b THEN a ELSE b

(***************************************************************************)
(* String::from_utf8 (main.rs:125) and the UTF-8 encoding of a String      *)
(***************************************************************************)

IsCont(b) == b \in 128..191

\* The length in bytes of the well-formed UTF-8 sequence starting at
\* data[i], or 0 if the bytes there are not well-formed UTF-8 (Unicode
\* table 3-7: no overlong forms, no surrogates, nothing above U+10FFFF).
Utf8Width(data, i) ==
  LET n  == Len(data)
      b0 == data[i]
      b1 == IF i + 1 <= n THEN data[i + 1] ELSE 0
      b2 == IF i + 2 <= n THEN data[i + 2] ELSE 0
      b3 == IF i + 3 <= n THEN data[i + 3] ELSE 0
  IN  CASE b0 \in 0..127   -> 1
        [] b0 \in 194..223 -> IF IsCont(b1) THEN 2 ELSE 0
        [] b0 = 224        -> IF b1 \in 160..191 /\ IsCont(b2) THEN 3 ELSE 0
        [] b0 \in 225..236 -> IF IsCont(b1) /\ IsCont(b2) THEN 3 ELSE 0
        [] b0 = 237        -> IF b1 \in 128..159 /\ IsCont(b2) THEN 3 ELSE 0
        [] b0 \in 238..239 -> IF IsCont(b1) /\ IsCont(b2) THEN 3 ELSE 0
        [] b0 = 240        -> IF b1 \in 144..191 /\ IsCont(b2) /\ IsCont(b3) THEN 4 ELSE 0
        [] b0 \in 241..243 -> IF IsCont(b1) /\ IsCont(b2) /\ IsCont(b3) THEN 4 ELSE 0
        [] b0 = 244        -> IF b1 \in 128..143 /\ IsCont(b2) /\ IsCont(b3) THEN 4 ELSE 0
        [] OTHER           -> 0

\* The scalar value encoded by the w bytes at data[i].
Utf8Scalar(data, i, w) ==
  CASE w = 1 -> data[i]
    [] w = 2 -> (data[i] - 192) * 64 + (data[i + 1] - 128)
    [] w = 3 -> (data[i] - 224) * 4096 + (data[i + 1] - 128) * 64 + (data[i + 2] - 128)
    [] w = 4 -> (data[i] - 240) * 262144 + (data[i + 1] - 128) * 4096
                  + (data[i + 2] - 128) * 64 + (data[i + 3] - 128)

\* A byte that starts a character: any byte but a continuation byte.
IsStart(b) == ~IsCont(b)

\* String::from_utf8(data): Ok(the text) or Err(FromUtf8Error).  The bytes
\* are UTF-8 when the first byte starts a character, every starting byte
\* heads a well-formed sequence, and the byte after each sequence starts
\* the next one.  The text is the scalar values at the starts, in order.
from_utf8(data) ==
  LET n      == Len(data)
      starts == SelectSeq([i \in 1..n |-> i], LAMBDA i : IsStart(data[i]))
      valid  == /\ n > 0 => IsStart(data[1])
                /\ \A k \in 1..Len(starts) :
                     LET i == starts[k]
                         w == Utf8Width(data, i)
                     IN  w > 0 /\ (i + w = n + 1 \/ IsStart(data[i + w]))
  IN  IF valid
      THEN [ok |-> TRUE,
            s  |-> [k \in 1..Len(starts) |->
                      Utf8Scalar(data, starts[k], Utf8Width(data, starts[k]))]]
      ELSE [ok |-> FALSE, s |-> <<>>]

\* The UTF-8 bytes of one scalar value.
Utf8Char(c) ==
  CASE c < 128     -> <<c>>
    [] c < 2048    -> <<192 + (c \div 64), 128 + (c % 64)>>
    [] c < 65536   -> <<224 + (c \div 4096), 128 + ((c \div 64) % 64), 128 + (c % 64)>>
    [] OTHER       -> <<240 + (c \div 262144), 128 + ((c \div 4096) % 64),
                        128 + ((c \div 64) % 64), 128 + (c % 64)>>

RECURSIVE Utf8Encode(_)
\* The UTF-8 bytes of a String.
Utf8Encode(s) ==
  CASE Len(s) = 0 -> <<>>
    [] Len(s) = 1 -> Utf8Char(s[1])
    [] OTHER      -> LET h == Len(s) \div 2
                     IN  Utf8Encode(SubSeq(s, 1, h)) \o Utf8Encode(SubSeq(s, h + 1, Len(s)))

(***************************************************************************)
(* The pattern RE (main.rs:22-24), as the regex crate matches it: Unicode  *)
(* classes, leftmost-first, `^` at the start of the text only, `.` any     *)
(* scalar value but \n.                                                    *)
(*   ^([\d.]+) (\S+) (\S+) \[([\w:/]+\s[\+\-]\d{2}:?\d{2}){0,1}\]          *)
(*    "(.+?)" (\d{3}) (\d+)                                                *)
(***************************************************************************)

\* \d is \p{Nd}: the decimal digits of every script.  Listed here: ASCII,
\* Arabic-Indic, Extended Arabic-Indic, Devanagari and Fullwidth digits.
IsDigit(c) ==
  \/ c \in 48..57
  \/ c \in 1632..1641
  \/ c \in 1776..1785
  \/ c \in 2406..2415
  \/ c \in 65296..65305

\* \w: letters, marks, decimal digits and connector punctuation.  Listed
\* here: the ASCII word characters, the Latin-1 letters and the digits above.
IsWord(c) ==
  \/ IsDigit(c)
  \/ c \in 65..90
  \/ c \in 97..122
  \/ c = 95
  \/ c \in {170, 181, 186}
  \/ c \in (192..255) \ {215, 247}

\* \s is \p{White_Space}.
IsSpace(c) ==
  \/ c \in 9..13
  \/ c \in {32, 133, 160, 5760, 8232, 8233, 8239, 8287, 12288}
  \/ c \in 8192..8202

SP == 32

ChHostClass(c) == IsDigit(c) \/ c = 46
ChNonSpace(c)  == ~IsSpace(c)
ChTimeClass(c) == IsWord(c) \/ c \in {58, 47}

\* The character at position i, or -1 past the end of the text.
At(s, i) == IF i \in 1..Len(s) THEN s[i] ELSE -1

\* Greedy runs: the position just after the longest run, starting at i, of
\* characters of the class.
HostRunEnd(s, i) ==
  CHOOSE j \in i..(Len(s) + 1) :
    /\ j = Len(s) + 1 \/ ~ChHostClass(s[j])
    /\ \A k \in i..(j - 1) : ChHostClass(s[k])

NonSpaceRunEnd(s, i) ==
  CHOOSE j \in i..(Len(s) + 1) :
    /\ j = Len(s) + 1 \/ ~ChNonSpace(s[j])
    /\ \A k \in i..(j - 1) : ChNonSpace(s[k])

TimeRunEnd(s, i) ==
  CHOOSE j \in i..(Len(s) + 1) :
    /\ j = Len(s) + 1 \/ ~ChTimeClass(s[j])
    /\ \A k \in i..(j - 1) : ChTimeClass(s[k])

DigitRunEnd(s, i) ==
  CHOOSE j \in i..(Len(s) + 1) :
    /\ j = Len(s) + 1 \/ ~IsDigit(s[j])
    /\ \A k \in i..(j - 1) : IsDigit(s[k])

\* ([\w:/]+\s[\+\-]\d{2}:?\d{2}) at position i: the position just after
\* the group, or 0 if it does not match there.
TimeGroupEnd(s, i) ==
  LET a == TimeRunEnd(s, i)
      c == IF At(s, a + 4) = 58 THEN a + 5 ELSE a + 4
  IN  IF /\ a > i
         /\ IsSpace(At(s, a))
         /\ At(s, a + 1) \in {43, 45}
         /\ IsDigit(At(s, a + 2)) /\ IsDigit(At(s, a + 3))
         /\ IsDigit(At(s, c)) /\ IsDigit(At(s, c + 1))
      THEN c + 2 ELSE 0

\* `" (\d{3}) (\d+)` at position q (the quote that closes the request).
TailMatch(s, q) ==
  /\ At(s, q) = 34
  /\ At(s, q + 1) = SP
  /\ IsDigit(At(s, q + 2)) /\ IsDigit(At(s, q + 3)) /\ IsDigit(At(s, q + 4))
  /\ At(s, q + 5) = SP
  /\ IsDigit(At(s, q + 6))

\* (.+?) from position r: the closing quote's position q, the first one
\* for which the rest of the pattern matches, or 0 if there is none.  The
\* request r..q-1 is not empty and holds no \n.
RequestEnd(s, r) ==
  LET ok(q) == /\ TailMatch(s, q)
               /\ \A k \in r..(q - 1) : s[k] # 10
  IN  IF \E q \in (r + 1)..Len(s) : ok(q)
      THEN CHOOSE q \in (r + 1)..Len(s) :
             ok(q) /\ \A p \in (r + 1)..(q - 1) : ~ok(p)
      ELSE 0

\* A capture group that did not take part in the match.
NoGroup == [present |-> FALSE, text |-> <<>>]
Group(s, a, b) == [present |-> TRUE, text |-> SubSeq(s, a, b - 1)]

NoMatch == [ok |-> FALSE, xs |-> <<>>]

\* RE.captures(s): None, or the seven groups xs[1] .. xs[7].
RE_captures(s) ==
  LET h  == HostRunEnd(s, 1)
      i  == NonSpaceRunEnd(s, h + 1)
      u  == NonSpaceRunEnd(s, i + 1)
      t0 == u + 2
      t  == TimeGroupEnd(s, t0)
      t1 == IF t > 0 THEN t ELSE t0
      r  == t1 + 3
      q  == RequestEnd(s, r)
      b  == DigitRunEnd(s, q + 6)
  IN  IF /\ h > 1 /\ At(s, h) = SP
         /\ i > h + 1 /\ At(s, i) = SP
         /\ u > i + 1 /\ At(s, u) = SP
         /\ At(s, u + 1) = 91
         /\ At(s, t1) = 93
         /\ At(s, t1 + 1) = SP
         /\ At(s, t1 + 2) = 34
         /\ q > 0
      THEN [ok |-> TRUE,
            xs |-> << Group(s, 1, h), Group(s, h + 1, i), Group(s, i + 1, u),
                      IF t > 0 THEN Group(s, t0, t) ELSE NoGroup,
                      Group(s, r, q), Group(s, q + 2, q + 5), Group(s, q + 6, b) >>]
      ELSE NoMatch

(***************************************************************************)
(* str::parse::<u32> (main.rs:109, 118, 119)                               *)
(***************************************************************************)

\* A u32 is held as two 16-bit limbs, [hi, lo], of value hi * 65536 + lo.
Limb == 65536

IsAsciiDigit(c) == c \in 48..57

\* MulAdd10 with wrapping_mul and wrapping_add in place of the checked
\* ones: the value is cut to 32 bits and never None.
MulAdd10Wrapping(acc, d) ==
  LET lo == acc.lo * 10 + d
      hi == acc.hi * 10 + (lo \div Limb)
  IN  [some |-> TRUE, v |-> [hi |-> hi % Limb, lo |-> lo % Limb]]

\* MulAdd10 with the overflow test off by one limb.
MulAdd10OffByOne(acc, d) ==
  LET lo == acc.lo * 10 + d
      hi == acc.hi * 10 + (lo \div Limb)
  IN  IF hi > Limb THEN [some |-> FALSE, v |-> acc]
      ELSE [some |-> TRUE, v |-> [hi |-> hi, lo |-> lo % Limb]]

\* acc.checked_mul(10) and then checked_add(d): Some(the u32) or None.
MulAdd10(acc, d) ==
  LET lo == acc.lo * 10 + d
      hi == acc.hi * 10 + (lo \div Limb)
  IN  IF hi >= Limb THEN [some |-> FALSE, v |-> acc]
      ELSE [some |-> TRUE, v |-> [hi |-> hi, lo |-> lo % Limb]]

U32Zero == [hi |-> 0, lo |-> 0]

RECURSIVE ParseDigits(_, _, _)
\* Accumulates the decimal digits of s from position i on into acc, as
\* from_str_radix does: a character that is not an ASCII digit is an
\* InvalidDigit error, a value above u32::MAX a PosOverflow error.
ParseDigits(s, i, acc) ==
  IF i > Len(s) THEN [ok |-> TRUE, v |-> acc]
  ELSE IF ~IsAsciiDigit(s[i]) THEN [ok |-> FALSE, v |-> U32Zero]
  ELSE LET n == MulAdd10(acc, s[i] - 48)
       IN  IF ~n.some THEN [ok |-> FALSE, v |-> U32Zero]
           ELSE ParseDigits(s, i + 1, n.v)

\* s.parse::<u32>(): Ok(v) or Err(ParseIntError).  An empty text is an
\* error; one leading `+` is accepted.
parse_u32(s) ==
  LET from == IF At(s, 1) = 43 THEN 2 ELSE 1
  IN  IF from > Len(s) THEN [ok |-> FALSE, v |-> U32Zero]
      ELSE ParseDigits(s, from, U32Zero)

RECURSIVE U32Digits(_)
\* The decimal digits of a u32, as serde_json writes a number.
U32Digits(v) ==
  LET r   == (v.hi % 10) * Limb + v.lo
      q   == [hi |-> v.hi \div 10, lo |-> r \div 10]
  IN  IF q = U32Zero THEN <<48 + (r % 10)>>
      ELSE Append(U32Digits(q), 48 + (r % 10))

(***************************************************************************)
(* chrono: DateTime::parse_from_str with the formats of main.rs:107-108,   *)
(* to_rfc3339 and with_timezone(&Utc) (main.rs:115-116)                    *)
(***************************************************************************)

IsLeapYear(y) == (y % 4 = 0 /\ y % 100 # 0) \/ y % 400 = 0

DaysInMonth(y, m) ==
  CASE m \in {1, 3, 5, 7, 8, 10, 12} -> 31
    [] m \in {4, 6, 9, 11}           -> 30
    [] OTHER                         -> IF IsLeapYear(y) THEN 29 ELSE 28

\* The twelve month abbreviations %b reads, in lower case.
ShortMonths == << Str("jan"), Str("feb"), Str("mar"), Str("apr"), Str("may"), Str("jun"),
                  Str("jul"), Str("aug"), Str("sep"), Str("oct"), Str("nov"), Str("dec") >>

ToAsciiLower(c) == IF c \in 65..90 THEN c + 32 ELSE c

\* scan::short_month0 at position i: the month 1..12, or 0.
ShortMonthAt(s, i) ==
  LET w == [k \in 1..3 |-> ToAsciiLower(At(s, i + k - 1))]
  IN  IF \E m \in 1..12 : ShortMonths[m] = w
      THEN CHOOSE m \in 1..12 : ShortMonths[m] = w
      ELSE 0

\* str::trim_left from position i: the first position that holds no white space.
TrimLeft(s, i) ==
  CHOOSE j \in i..(Len(s) + 1) :
    /\ j = Len(s) + 1 \/ ~IsSpace(s[j])
    /\ \A k \in i..(j - 1) : IsSpace(s[k])

RECURSIVE SmallNumber(_)
\* The value of a run of at most four ASCII digits.
SmallNumber(d) ==
  IF d = <<>> THEN 0 ELSE SmallNumber(SubSeq(d, 1, Len(d) - 1)) * 10 + (d[Len(d)] - 48)

\* scan::number(s, 1, max) at position i, after the trim_left of a numeric
\* item: reads one to max ASCII digits.
ScanNumber(s, i, max) ==
  LET a == TrimLeft(s, i)
      e == CHOOSE j \in a..(Len(s) + 1) :
             /\ j = a + max \/ j = Len(s) + 1 \/ ~IsAsciiDigit(s[j])
             /\ \A k \in a..(j - 1) : IsAsciiDigit(s[k])
             /\ j <= a + max
  IN  IF e = a THEN [ok |-> FALSE, v |-> 0, next |-> a]
      ELSE [ok |-> TRUE, v |-> SmallNumber(SubSeq(s, a, e - 1)), next |-> e]

\* A literal character of the format at position i.
ScanLiteral(s, i, c) ==
  IF At(s, i) = c THEN [ok |-> TRUE, next |-> i + 1] ELSE [ok |-> FALSE, next |-> i]

\* scan::colon_or_space: skips every `:` and white space from position i.
ColonOrSpace(s, i) ==
  CHOOSE j \in i..(Len(s) + 1) :
    /\ j = Len(s) + 1 \/ ~(s[j] = 58 \/ IsSpace(s[j]))
    /\ \A k \in i..(j - 1) : s[k] = 58 \/ IsSpace(s[k])

\* timezone_offset reading the offset only with its colon, +hh:mm.
timezone_offset_colon_only(s, i) ==
  LET a == TrimLeft(s, i)
      m == a + 4
      hours   == (At(s, a + 1) - 48) * 10 + (At(s, a + 2) - 48)
      minutes == (At(s, m) - 48) * 10 + (At(s, m + 1) - 48)
      secs    == hours * 3600 + minutes * 60
  IN  IF /\ At(s, a) \in {43, 45}
         /\ IsAsciiDigit(At(s, a + 1)) /\ IsAsciiDigit(At(s, a + 2))
         /\ At(s, a + 3) = 58
         /\ IsAsciiDigit(At(s, m)) /\ IsAsciiDigit(At(s, m + 1))
         /\ minutes <= 59
      THEN [ok |-> TRUE, v |-> IF At(s, a) = 45 THEN -secs ELSE secs, next |-> m + 2]
      ELSE [ok |-> FALSE, v |-> 0, next |-> a]

\* scan::timezone_offset at position i, which chrono uses for %:z and for
\* %z alike: a sign, two digits of hours, any colons or white space, two
\* digits of minutes (00..59).  The offset is in seconds.
timezone_offset(s, i) ==
  LET a == TrimLeft(s, i)
      m == ColonOrSpace(s, Min(a + 3, Len(s) + 1))
      hours   == (At(s, a + 1) - 48) * 10 + (At(s, a + 2) - 48)
      minutes == (At(s, m) - 48) * 10 + (At(s, m + 1) - 48)
      secs    == hours * 3600 + minutes * 60
  IN  IF /\ At(s, a) \in {43, 45}
         /\ IsAsciiDigit(At(s, a + 1)) /\ IsAsciiDigit(At(s, a + 2))
         /\ IsAsciiDigit(At(s, m)) /\ IsAsciiDigit(At(s, m + 1))
         /\ minutes <= 59
      THEN [ok |-> TRUE, v |-> IF At(s, a) = 45 THEN -secs ELSE secs, next |-> m + 2]
      ELSE [ok |-> FALSE, v |-> 0, next |-> a]

\* Err(ParseError).  The other fields are placeholders, never read.
ParseErr == [ok |-> FALSE,
             utc |-> [year |-> 1970, month |-> 1, day |-> 1, secs |-> 0],
             offset |-> 0]

\* The day before and the day after a date.
PredDay(d) ==
  IF d.day > 1 THEN [d EXCEPT !.day = d.day - 1]
  ELSE IF d.month > 1
       THEN [d EXCEPT !.month = d.month - 1, !.day = DaysInMonth(d.year, d.month - 1)]
       ELSE [d EXCEPT !.year = d.year - 1, !.month = 12, !.day = 31]

SuccDay(d) ==
  IF d.day < DaysInMonth(d.year, d.month) THEN [d EXCEPT !.day = d.day + 1]
  ELSE IF d.month < 12
       THEN [d EXCEPT !.month = d.month + 1, !.day = 1]
       ELSE [d EXCEPT !.year = d.year + 1, !.month = 1, !.day = 1]

\* NaiveDateTime + Duration::seconds(delta), for -86400 < delta < 86400.
\* secs is the second of the day.
AddSecs(d, delta) ==
  LET t == d.secs + delta
  IN  CASE t < 0      -> [PredDay(d) EXCEPT !.secs = t + 86400]
        [] t >= 86400 -> [SuccDay(d) EXCEPT !.secs = t - 86400]
        [] OTHER      -> [d EXCEPT !.secs = t]

\* DateTime::parse_from_str(s, "%d/%b/%Y:%H:%M:%S " followed by the offset
\* item fmt, "%:z" or "%z"): Ok(DateTime<FixedOffset>) or Err(ParseError).
\* A DateTime holds the UTC date and time and the offset in seconds.  The
\* item list is read left to right; text left over is an error; then the
\* fields must name a date, a time of day and an offset of less than a day.
\* (A second of 60, the leap second notation, is not modelled: rejected.)
parse_from_str(s, fmt) ==
  LET day  == ScanNumber(s, 1, 2)
      l1   == ScanLiteral(s, day.next, 47)
      mon  == ShortMonthAt(s, l1.next)
      l2   == ScanLiteral(s, l1.next + 3, 47)
      year == ScanNumber(s, l2.next, 4)
      l3   == ScanLiteral(s, year.next, 58)
      hour == ScanNumber(s, l3.next, 2)
      l4   == ScanLiteral(s, hour.next, 58)
      min  == ScanNumber(s, l4.next, 2)
      l5   == ScanLiteral(s, min.next, 58)
      sec  == ScanNumber(s, l5.next, 2)
      off  == timezone_offset(s, TrimLeft(s, sec.next))
  IN  IF /\ fmt \in {"%:z", "%z"}
         /\ day.ok /\ l1.ok /\ mon > 0 /\ l2.ok /\ year.ok /\ l3.ok
         /\ hour.ok /\ l4.ok /\ min.ok /\ l5.ok /\ sec.ok /\ off.ok
         /\ off.next = Len(s) + 1
         /\ day.v \in 1..DaysInMonth(year.v, mon)
         /\ hour.v <= 23 /\ min.v <= 59 /\ sec.v <= 59
         /\ off.v > -86400 /\ off.v < 86400
      THEN [ok |-> TRUE,
            utc |-> AddSecs([year |-> year.v, month |-> mon, day |-> day.v,
                             secs |-> hour.v * 3600 + min.v * 60 + sec.v], -off.v),
            offset |-> off.v]
      ELSE ParseErr

RECURSIVE Digits(_)
\* The decimal digits of a natural number, as Display writes them.
Digits(n) == IF n < 10 THEN <<48 + n>> ELSE Append(Digits(n \div 10), 48 + (n % 10))

\* A number written with at least w digits, padded with zeros.
Pad(n, w) ==
  LET d == Digits(n)
  IN  IF Len(d) >= w THEN d ELSE [k \in 1..(w - Len(d)) |-> 48] \o d

\* DateTime::to_rfc3339: the local date and time, then the offset as
\* +hh:mm or -hh:mm.
to_rfc3339(dt) ==
  LET l == AddSecs(dt.utc, dt.offset)
      a == IF dt.offset < 0 THEN -dt.offset ELSE dt.offset
  IN  Pad(l.year, 4) \o <<45>> \o Pad(l.month, 2) \o <<45>> \o Pad(l.day, 2) \o <<84>>
        \o Pad(l.secs \div 3600, 2) \o <<58>> \o Pad((l.secs \div 60) % 60, 2)
        \o <<58>> \o Pad(l.secs % 60, 2)
        \o <<IF dt.offset < 0 THEN 45 ELSE 43>>
        \o Pad(a \div 3600, 2) \o <<58>> \o Pad((a \div 60) % 60, 2)

\* DateTime::with_timezone(&Utc): the same instant at offset zero.
with_timezone_utc(dt) == [dt EXCEPT !.offset = 0]

(***************************************************************************)
(* serde_json: to_value of an AccessLog (main.rs:32-44, 121) and to_vec    *)
(* of the Value (main.rs:129)                                              *)
(***************************************************************************)

\* a < b in the order of String keys (lexicographic by scalar value).
KeyLess(a, b) ==
  \E k \in 1..(Min(Len(a), Len(b)) + 1) :
    /\ \A j \in 1..(k - 1) : a[j] = b[j]
    /\ IF k > Len(a) THEN k <= Len(b)
       ELSE k <= Len(b) /\ a[k] < b[k]

\* Map::insert on serde_json's Map (a BTreeMap<String, Value>, the crate's
\* default): the entries stay sorted by key; an equal key is replaced.
MapInsert(m, k, v) ==
  LET before == SelectSeq(m, LAMBDA e : KeyLess(e.key, k))
      after  == SelectSeq(m, LAMBDA e : KeyLess(k, e.key))
  IN  before \o << [key |-> k, val |-> v] >> \o after

JsonString(s) == [kind |-> "String", s |-> s]
JsonNumber(n) == [kind |-> "Number", n |-> n]

\* FieldNames without the two serde(rename) attributes.
FieldNamesOfStruct == << Str("host"), Str("ident"), Str("authuser"), Str("timestamp"),
                         Str("timestamp_utc"), Str("request"), Str("response"), Str("bytes") >>

\* The names under which serde writes the fields of AccessLog, in the
\* order of the struct: timestamp and timestamp_utc are renamed.
FieldNames == << Str("host"), Str("ident"), Str("authuser"), Str("@timestamp"),
                 Str("@timestamp_utc"), Str("request"), Str("response"), Str("bytes") >>

\* serde_json::to_value(log): the derived Serialize puts every field, in
\* the order of the struct, into a Value::Object.  It cannot fail for
\* this struct (string keys, String and u32 values).
to_value(log) ==
  LET f == FieldNames
      m1 == MapInsert(<<>>, f[1], JsonString(log.host))
      m2 == MapInsert(m1, f[2], JsonString(log.ident))
      m3 == MapInsert(m2, f[3], JsonString(log.authuser))
      m4 == MapInsert(m3, f[4], JsonString(log.timestamp))
      m5 == MapInsert(m4, f[5], JsonString(log.timestamp_utc))
      m6 == MapInsert(m5, f[6], JsonString(log.request))
      m7 == MapInsert(m6, f[7], JsonNumber(log.response))
  IN  MapInsert(m7, f[8], JsonNumber(log.bytes))

HexDigit(n) == IF n < 10 THEN 48 + n ELSE 87 + n

\* One character of a JSON string as serde_json writes it: the quote, the
\* backslash and the control characters are escaped, all else is kept.
JsonEscape(c) ==
  CASE c = 34 -> <<92, 34>>
    [] c = 92 -> <<92, 92>>
    [] c = 8  -> <<92, 98>>
    [] c = 9  -> <<92, 116>>
    [] c = 10 -> <<92, 110>>
    [] c = 12 -> <<92, 102>>
    [] c = 13 -> <<92, 114>>
    [] c < 32 /\ c \notin {8, 9, 10, 12, 13} ->
         <<92, 117, 48, 48, HexDigit(c \div 16), HexDigit(c % 16)>>
    [] OTHER  -> <<c>>

RECURSIVE JsonEscapeAll(_)
\* The escaped characters of a string, in order.
JsonEscapeAll(s) ==
  CASE Len(s) = 0 -> <<>>
    [] Len(s) = 1 -> JsonEscape(s[1])
    [] OTHER      -> LET h == Len(s) \div 2
                     IN  JsonEscapeAll(SubSeq(s, 1, h)) \o JsonEscapeAll(SubSeq(s, h + 1, Len(s)))

JsonQuote(s) == <<34>> \o JsonEscapeAll(s) \o <<34>>

JsonValueText(v) == IF v.kind = "String" THEN JsonQuote(v.s) ELSE U32Digits(v.n)

RECURSIVE JsonEntries(_)
\* The entries of an object, separated by commas.
JsonEntries(m) ==
  IF m = <<>> THEN <<>>
  ELSE JsonQuote(m[1].key) \o <<58>> \o JsonValueText(m[1].val)
         \o (IF Len(m) > 1 THEN <<44>> ELSE <<>>) \o JsonEntries(Tail(m))

\* serde_json::to_vec(&value): the compact JSON text of the object, as
\* UTF-8 bytes.  It cannot fail (a Vec is written, every key is a string).
to_vec(value) == Utf8Encode(<<123>> \o JsonEntries(value) \o <<125>>)

(***************************************************************************)
(* apache_log2json, transform_data, transform_record (main.rs:103-157)     *)
(***************************************************************************)

\* The variants of LogError (main.rs:46-53).
LogErrors == {"RegexParseError", "UTF8Error", "DateTimeParseError", "IntError", "JsonError"}

\* main.rs:106-108: the colon format first, or(...) the format without.
ParseTimestamp(text) ==
  LET first  == parse_from_str(text, "%:z")
      second == parse_from_str(text, "%z")
  IN  IF first.ok THEN first ELSE second

\* main.rs:111-120: the AccessLog of a match, once both numbers parsed.
AccessLog(xs, time, response, bytes) ==
  [ host          |-> xs[1].text,
    ident         |-> xs[2].text,
    authuser      |-> xs[3].text,
    timestamp     |-> to_rfc3339(time),
    timestamp_utc |-> to_rfc3339(with_timezone_utc(time)),
    request       |-> xs[5].text,
    response      |-> response,
    bytes         |-> bytes ]

\* main.rs:144-148: the record of a transformed payload.
TransformedRecord(id, x) == [record_id |-> id, data |-> x, result |-> "None"]

\* FallbackRecord with the payload dropped instead of passed through.
FallbackRecordEmpty(id, data) == [record_id |-> id, data |-> <<>>, result |-> "None"]

\* main.rs:151-155: the record of a payload that could not be transformed.
FallbackRecord(id, data) == [record_id |-> id, data |-> data, result |-> "None"]

\* NextStage with the two numeric stages ahead of the timestamp stage.
NextStageNumbersFirst(pc) ==
  CASE pc = "from_utf8"    -> "captures"
    [] pc = "captures"     -> "parse_status"
    [] pc = "parse_status" -> "build_log"
    [] pc = "build_log"    -> "parse_time"
    [] pc = "parse_time"   -> "to_value"
    [] pc = "to_value"     -> "to_vec"
    [] pc = "to_vec"       -> "respond"
    [] pc = "respond"      -> "done"

\* The statement each stage of a record's transformation goes on to when
\* it succeeds (main.rs:125, 104, 106, 109, 111, 121, 129, 143).
NextStage(pc) ==
  CASE pc = "from_utf8"    -> "captures"
    [] pc = "captures"     -> "parse_time"
    [] pc = "parse_time"   -> "parse_status"
    [] pc = "parse_status" -> "build_log"
    [] pc = "build_log"    -> "to_value"
    [] pc = "to_value"     -> "to_vec"
    [] pc = "to_vec"       -> "respond"
    [] pc = "respond"      -> "done"

\* Collected in the order the transformations completed.
CollectedInCompletionOrder(slots, order) == [k \in 1..Len(order) |-> slots[order[k]]]

\* main.rs:161-163: collect() gathers the mapped records by index.
Collected(slots, order) == [i \in 1..Len(slots) |-> slots[i]]

(***************************************************************************)
(* The payloads the model is run on                                        *)
(***************************************************************************)

\* The largest batch of several records.
MaxBatch == 2

\* Timestamps the two formats accept, each in both spellings of the
\* offset, with the RFC 3339 texts of the instant worked out by hand: the
\* line of the test (main.rs:134), one whose UTC day is the next year's
\* first, one whose UTC day is a 29 February.
TimestampExamples ==
  { [ colon   |-> Str("14/Dec/2017:22:16:45 +09:00"),
      nocolon |-> Str("14/Dec/2017:22:16:45 +0900"),
      local   |-> Str("2017-12-14T22:16:45+09:00"),
      utc     |-> Str("2017-12-14T13:16:45+00:00") ],
    [ colon   |-> Str("31/Dec/2017:23:30:00 -05:30"),
      nocolon |-> Str("31/Dec/2017:23:30:00 -0530"),
      local   |-> Str("2017-12-31T23:30:00-05:30"),
      utc     |-> Str("2018-01-01T05:00:00+00:00") ],
    [ colon   |-> Str("01/Mar/2016:03:00:00 +09:00"),
      nocolon |-> Str("01/Mar/2016:03:00:00 +0900"),
      local   |-> Str("2016-03-01T03:00:00+09:00"),
      utc     |-> Str("2016-02-29T18:00:00+00:00") ] }

GoodTimestamps == {e.colon : e \in TimestampExamples} \cup {e.nocolon : e \in TimestampExamples}

\* Texts the pattern's fourth group matches and no format accepts: a day
\* the month does not have, an offset of 60 minutes.
BadTimestamps == { Str("31/Feb/2017:22:16:45 +0900"), Str("14/Dec/2017:22:16:45 +09:60") }

\* Empty brackets: the fourth group takes no part in the match.
NoTimestamp == <<>>

\* Three ASCII digits; two and four ASCII digits; three Arabic-Indic digits.
GoodStatuses  == { Str("200"), Str("404") }
ShortStatus   == Str("20")
LongStatus    == Str("2000")
ArabicStatus  == <<1634, 1632, 1632>>

\* Byte counts: in range (the last one with leading zeros), u32::MAX,
\* u32::MAX + 1, eleven digits, one Arabic-Indic digit.
SmallCounts   == { Str("9947"), Str("0"), Str("0000000000012") }
MaxCount      == Str("4294967295")
OverCounts    == { Str("4294967296"), Str("99999999999") }
ArabicCount   == <<1637>>

\* What follows the byte count: nothing; the referrer and user agent of
\* the combined log format; a referrer followed by digit runs that read
\* as a status and a byte count.
Trailers == { <<>>, Str(" \"-\" \"Mozilla/5.0\""), Str(" \"-\" 404 7") }

\* A log line composed of its parts.
LineText(c) ==
  c.host \o <<SP>> \o c.ident \o <<SP>> \o c.authuser \o <<SP, 91>> \o c.ts \o <<93, SP, 34>>
    \o c.request \o <<34, SP>> \o c.status \o <<SP>> \o c.bytes \o c.rest

LineCases ==
  { [ kind |-> "line", host |-> Str("7.248.7.119"), ident |-> Str("-"), authuser |-> Str("-"),
      ts |-> ts, request |-> Str("GET /explore"), status |-> st, bytes |-> by, rest |-> tr,
      raw |-> <<>> ] :
      ts \in GoodTimestamps \cup BadTimestamps \cup {NoTimestamp},
      st \in GoodStatuses \cup {ShortStatus, LongStatus, ArabicStatus},
      by \in SmallCounts \cup {MaxCount} \cup OverCounts \cup {ArabicCount},
      tr \in Trailers }

\* One more line, whose ident, authuser and request need escaping in JSON.
EscapedCase ==
  [ kind |-> "line", host |-> Str("10.0.0.1"), ident |-> Str("a\"b"), authuser |-> <<1, 233>>,
    ts |-> Str("14/Dec/2017:22:16:45 +0900"), request |-> Str("GET /a\\b") \o <<9>> \o Str("c HTTP/1.1"),
    status |-> Str("301"), bytes |-> Str("5"), rest |-> <<>>, raw |-> <<>> ]

\* The line of the repository's test (main.rs:134), byte for byte.
TestLine == Str("7.248.7.119 - - [14/Dec/2017:22:16:45 +09:00] \"GET /explore\" 200 9947 \"-\" \"Mozilla/5.0 (Windows NT 6.2; WOW64; rv:8.5) Gecko/20100101 Firefox/8.5.1\" ")

\* The same line, composed of its parts.
TestCase ==
  [ kind |-> "line", host |-> Str("7.248.7.119"), ident |-> Str("-"), authuser |-> Str("-"),
    ts |-> Str("14/Dec/2017:22:16:45 +09:00"), request |-> Str("GET /explore"),
    status |-> Str("200"), bytes |-> Str("9947"),
    rest |-> Str(" \"-\" \"Mozilla/5.0 (Windows NT 6.2; WOW64; rv:8.5) Gecko/20100101 Firefox/8.5.1\" "),
    raw |-> <<>> ]

RawCase(bytes) ==
  [ kind |-> "raw", host |-> <<>>, ident |-> <<>>, authuser |-> <<>>, ts |-> <<>>,
    request |-> <<>>, status |-> <<>>, bytes |-> <<>>, rest |-> <<>>, raw |-> bytes ]

\* Payloads that are no composed line: empty, a text that is no log line,
\* the test's line, bytes that are not UTF-8 (a stray 0xFF, an overlong
\* encoding, a cut-off sequence), and a log line cut by a line feed.
RawCases ==
  { RawCase(<<>>),
    RawCase(Str("not a log line")),
    RawCase(<<55, 46, 50, 255, 254>>),
    RawCase(<<192, 128>>),
    RawCase(<<49, 46, 50, 32, 226, 130>>),
    RawCase(Str("1.2 - - [14/Dec/2017:22:16:45 +0900] \"GET") \o <<10>> \o Str("/\" 200 5")) }

AllCases == LineCases \cup {EscapedCase, TestCase} \cup RawCases

\* The bytes of a payload.
Payload(c) == IF c.kind = "raw" THEN c.raw ELSE Utf8Encode(LineText(c))

\* The cases batches of several records are made of: a line that is
\* transformed, a text that is passed through, and a line with empty
\* brackets.
BatchCases ==
  { TestCase,
    RawCase(Str("not a log line")),
    [ kind |-> "line", host |-> Str("7.248.7.119"), ident |-> Str("-"), authuser |-> Str("-"),
      ts |-> NoTimestamp, request |-> Str("GET /explore"), status |-> Str("200"),
      bytes |-> Str("9947"), rest |-> <<>>, raw |-> <<>> ] }

RecordIds == {"r1", "r2"}

\* Batches: every case alone, and every batch of up to MaxBatch of the
\* batch cases.
Origins == {<<c>> : c \in AllCases} \cup UNION {[1..n -> BatchCases] : n \in 0..MaxBatch}

(***************************************************************************)
(* The handler as a state machine                                          *)
(***************************************************************************)

VARIABLES
  origin,     \* how the payload of each record of the event was composed
  event,      \* the KinesisFirehoseEvent's records: record_id and data
  task,       \* per record: the position of its transform_record call and its locals
  slots,      \* per record: the KinesisFirehoseResponseRecord, once produced
  completed,  \* the records in the order their transformations returned
  handler,    \* my_handler: "running", "returned" or "panicked"
  response    \* the KinesisFirehoseResponse's records, once returned

vars == <<origin, event, task, slots, completed, handler, response>>

NoRecord == [record_id |-> "", data |-> <<>>, result |-> "pending"]

NewTask ==
  [ pc |-> "from_utf8", err |-> "none", s |-> <<>>, xs |-> <<>>, time |-> ParseErr,
    log |-> <<>>, value |-> <<>>, out |-> <<>> ]

Records == 1..Len(event)

Init ==
  /\ origin \in Origins
  /\ \E id \in [1..Len(origin) -> RecordIds] :
       event = [i \in 1..Len(origin) |-> [record_id |-> id[i], data |-> Payload(origin[i])]]
  /\ task = [i \in 1..Len(origin) |-> NewTask]
  /\ slots = [i \in 1..Len(origin) |-> NoRecord]
  /\ completed = <<>>
  /\ handler = "running"
  /\ response = <<>>

\* A stage of record i ends in an error: transform_data returns Err.
Fail(i, kind) == task' = [task EXCEPT ![i].err = kind, ![i].pc = "respond"]

\* main.rs:125: let s = String::from_utf8(data)?;
FromUtf8(i) ==
  /\ handler = "running" /\ task[i].pc = "from_utf8"
  /\ LET r == from_utf8(event[i].data)
     IN  IF r.ok
         THEN task' = [task EXCEPT ![i].s = r.s, ![i].pc = NextStage("from_utf8")]
         ELSE Fail(i, "UTF8Error")
  /\ UNCHANGED <<origin, event, slots, completed, handler, response>>

\* main.rs:104: let xs = RE.captures(s).ok_or(LogError::RegexParseError)?;
Captures(i) ==
  /\ handler = "running" /\ task[i].pc = "captures"
  /\ LET m == RE_captures(task[i].s)
     IN  IF m.ok
         THEN task' = [task EXCEPT ![i].xs = m.xs, ![i].pc = NextStage("captures")]
         ELSE Fail(i, "RegexParseError")
  /\ UNCHANGED <<origin, event, slots, completed, handler, response>>

\* main.rs:106-108: &xs[4] panics when the group took no part in the
\* match; otherwise the text is parsed, and `?` returns the error.
ParseTime(i) ==
  /\ handler = "running" /\ task[i].pc = "parse_time"
  /\ IF ~task[i].xs[4].present
     THEN task' = [task EXCEPT ![i].pc = "panicked"]
     ELSE LET r == ParseTimestamp(task[i].xs[4].text)
          IN  IF r.ok
              THEN task' = [task EXCEPT ![i].time = r, ![i].pc = NextStage("parse_time")]
              ELSE Fail(i, "DateTimeParseError")
  /\ UNCHANGED <<origin, event, slots, completed, handler, response>>

\* main.rs:109: xs[6].parse::<u32>()?;
ParseStatus(i) ==
  /\ handler = "running" /\ task[i].pc = "parse_status"
  /\ IF parse_u32(task[i].xs[6].text).ok
     THEN task' = [task EXCEPT ![i].pc = NextStage("parse_status")]
     ELSE Fail(i, "IntError")
  /\ UNCHANGED <<origin, event, slots, completed, handler, response>>

\* main.rs:111-120: the fields in the order of the struct literal; the
\* two parses come last, response before bytes, each with `?`.
BuildLog(i) ==
  /\ handler = "running" /\ task[i].pc = "build_log"
  /\ LET response_ == parse_u32(task[i].xs[6].text)
         bytes_    == parse_u32(task[i].xs[7].text)
     IN  IF response_.ok /\ bytes_.ok
         THEN task' = [task EXCEPT
                         ![i].log = AccessLog(task[i].xs, task[i].time, response_.v, bytes_.v),
                         ![i].pc = NextStage("build_log")]
         ELSE Fail(i, "IntError")
  /\ UNCHANGED <<origin, event, slots, completed, handler, response>>

\* main.rs:121: serde_json::to_value(log)
ToValue(i) ==
  /\ handler = "running" /\ task[i].pc = "to_value"
  /\ task' = [task EXCEPT ![i].value = to_value(task[i].log), ![i].pc = NextStage("to_value")]
  /\ UNCHANGED <<origin, event, slots, completed, handler, response>>

\* main.rs:129: serde_json::to_vec(&r)
ToVec(i) ==
  /\ handler = "running" /\ task[i].pc = "to_vec"
  /\ task' = [task EXCEPT ![i].out = to_vec(task[i].value), ![i].pc = NextStage("to_vec")]
  /\ UNCHANGED <<origin, event, slots, completed, handler, response>>

\* main.rs:140-157: map(...) on Ok, unwrap_or(...) on Err of any kind.
Respond(i) ==
  /\ handler = "running" /\ task[i].pc = "respond"
  /\ slots' = [slots EXCEPT ![i] =
                 IF task[i].err = "none"
                 THEN TransformedRecord(event[i].record_id, task[i].out)
                 ELSE FallbackRecord(event[i].record_id, event[i].data)]
  /\ task' = [task EXCEPT ![i].pc = NextStage("respond")]
  /\ completed' = Append(completed, i)
  /\ UNCHANGED <<origin, event, handler, response>>

\* main.rs:159-165: every closure of the parallel map has returned.
Collect ==
  /\ handler = "running"
  /\ \A i \in Records : task[i].pc = "done"
  /\ response' = Collected(slots, completed)
  /\ handler' = "returned"
  /\ UNCHANGED <<origin, event, task, slots, completed>>

\* A closure of the parallel map panicked: rayon lets the other closures
\* finish and resumes the panic in my_handler, which returns nothing.
Unwind ==
  /\ handler = "running"
  /\ \A i \in Records : task[i].pc \in {"done", "panicked"}
  /\ \E i \in Records : task[i].pc = "panicked"
  /\ handler' = "panicked"
  /\ UNCHANGED <<origin, event, task, slots, completed, response>>

Next ==
  \/ \E i \in Records : FromUtf8(i)
  \/ \E i \in Records : Captures(i)
  \/ \E i \in Records : ParseTime(i)
  \/ \E i \in Records : ParseStatus(i)
  \/ \E i \in Records : BuildLog(i)
  \/ \E i \in Records : ToValue(i)
  \/ \E i \in Records : ToVec(i)
  \/ \E i \in Records : Respond(i)
  \/ Collect
  \/ Unwind

Spec == Init /\ [][Next]_vars

(***************************************************************************)
(* Reading the results                                                     *)
(***************************************************************************)

\* Record i's transformation has returned.
Finished(i) == task[i].pc = "done"

\* Record i was transformed: transform_data returned Ok.
Transformed(i) == task[i].pc = "done" /\ task[i].err = "none"

\* Record i was passed through: transform_data returned Err.
PassedThrough(i) == task[i].pc = "done" /\ task[i].err \in LogErrors

\* The keys of a JSON object, and the value under a key.
Keys(value) == {value[k].key : k \in 1..Len(value)}
Field(value, name) == (CHOOSE e \in {value[k] : k \in 1..Len(value)} : e.key = Str(name)).val

\* The ASCII digit of the same numeric value as a decimal digit of any
\* of the scripts of IsDigit; another character stays as it is.
AsciiOfDigit(c) ==
  CASE c \in 1632..1641   -> c - 1632 + 48
    [] c \in 1776..1785   -> c - 1776 + 48
    [] c \in 2406..2415   -> c - 2406 + 48
    [] c \in 65296..65305 -> c - 65296 + 48
    [] OTHER              -> c

AllAsciiDigits(d) == \A k \in 1..Len(d) : IsAsciiDigit(d[k])

\* A digit run without its leading zeros (one zero is kept).
StripZeros(d) ==
  LET nz == {k \in 1..Len(d) : d[k] # 48}
  IN  IF nz = {} THEN <<48>>
      ELSE SubSeq(d, CHOOSE k \in nz : \A j \in nz : k <= j, Len(d))

U32MaxText == Str("4294967295")

\* A run of decimal digits denotes a value above 4294967295: decided on
\* the text, by length and then digit by digit.
ExceedsU32(d) ==
  LET z == StripZeros([k \in 1..Len(d) |-> AsciiOfDigit(d[k])])
  IN  \/ Len(z) > Len(U32MaxText)
      \/ /\ Len(z) = Len(U32MaxText)
         /\ \E k \in 1..Len(z) :
              /\ z[k] > U32MaxText[k]
              /\ \A j \in 1..(k - 1) : z[j] = U32MaxText[j]

\* The days from 1970-01-01 to a date of the proleptic Gregorian calendar.
DaysFromCivil(y, m, d) ==
  LET yy  == IF m <= 2 THEN y - 1 ELSE y
      era == yy \div 400
      yoe == yy - era * 400
      mp  == (m + 9) % 12
      doy == ((153 * mp + 2) \div 5) + d - 1
      doe == yoe * 365 + (yoe \div 4) - (yoe \div 100) + doy
  IN  era * 146097 + doe - 719468

\* The instant an RFC 3339 text yyyy-mm-ddThh:mm:ss+hh:mm denotes: the
\* day number and the second of the day, in UTC.
Rfc3339Instant(x) ==
  LET num(a, b) == SmallNumber(SubSeq(x, a, b))
      off  == (num(21, 22) * 3600 + num(24, 25) * 60) * (IF x[20] = 45 THEN -1 ELSE 1)
      days == DaysFromCivil(num(1, 4), num(6, 7), num(9, 10))
      secs == num(12, 13) * 3600 + num(15, 16) * 60 + num(18, 19) - off
  IN  CASE secs < 0      -> [days |-> days - 1, secs |-> secs + 86400]
        [] secs >= 86400 -> [days |-> days + 1, secs |-> secs - 86400]
        [] OTHER         -> [days |-> days, secs |-> secs]

\* The example a timestamp of the catalogue belongs to.
ExampleOf(ts) == CHOOSE e \in TimestampExamples : ts \in {e.colon, e.nocolon}

\* A composed line that is well formed: a dotted-digit host, a timestamp
\* both formats accept, a status of three ASCII digits and a byte count
\* of ASCII digits that fits a u32.
WellFormed(c) ==
  /\ c.kind = "line"
  /\ \A k \in 1..Len(c.host) : IsAsciiDigit(c.host[k]) \/ c.host[k] = 46
  /\ c.ts \in GoodTimestamps
  /\ Len(c.status) = 3 /\ AllAsciiDigits(c.status)
  /\ AllAsciiDigits(c.bytes) /\ ~ExceedsU32(c.bytes)

\* The stage at which the code, read as one function of the payload,
\* first fails: the error it returns, "panic", or "none".
FirstFailure(data) ==
  LET u  == from_utf8(data)
      m  == RE_captures(u.s)
      tm == ParseTimestamp(m.xs[4].text)
  IN  CASE ~u.ok                          -> "UTF8Error"
        [] u.ok /\ ~m.ok                  -> "RegexParseError"
        [] u.ok /\ m.ok /\ ~m.xs[4].present -> "panic"
        [] u.ok /\ m.ok /\ m.xs[4].present /\ ~tm.ok -> "DateTimeParseError"
        [] u.ok /\ m.ok /\ m.xs[4].present /\ tm.ok
             /\ ~(parse_u32(m.xs[6].text).ok /\ parse_u32(m.xs[7].text).ok) -> "IntError"
        [] OTHER                          -> "none"

\* The stages in the order of the pipeline.
StageRank(pc) ==
  CASE pc = "from_utf8"    -> 1
    [] pc = "captures"     -> 2
    [] pc = "parse_time"   -> 3
    [] pc = "parse_status" -> 4
    [] pc = "build_log"    -> 5
    [] pc = "to_value"     -> 6
    [] pc = "to_vec"       -> 7
    [] OTHER               -> 8

(***************************************************************************)
(* The claims                                                              *)
(***************************************************************************)

\* C1 (as stated): whatever the payload bytes -- a line with empty
\* brackets included -- no transform_record call panics: each one is
\* still on its way or has yielded its one record.
C1_NeverPanics ==
  \A i \in Records :
    /\ task[i].pc # "panicked"
    /\ Finished(i) => slots[i].result = "None"

\* C2: when my_handler returns, whatever the order in which the
\* transformations completed, the response has as many records as the
\* event and the i-th carries the i-th record's identifier.
C2_OrderPreserved ==
  handler = "returned" =>
    /\ Len(response) = Len(event)
    /\ \A i \in Records : response[i].record_id = event[i].record_id

\* C2's case: two records with different identifiers, the second
\* completed before the first, and the response is in input order.
C2_Witness ==
  /\ handler = "returned"
  /\ Len(event) = 2
  /\ completed = <<2, 1>>
  /\ event[1].record_id # event[2].record_id
  /\ response[1].record_id = event[1].record_id

\* C3: a record whose transform_data ended in an error of any kind comes
\* out with its own identifier, its payload byte for byte and no result
\* annotation; the response carries that record.
C3_FallbackFidelity ==
  \A i \in Records :
    PassedThrough(i) =>
      /\ slots[i].record_id = event[i].record_id
      /\ slots[i].data = event[i].data
      /\ slots[i].result = "None"
      /\ handler = "returned" => response[i] = slots[i]

\* C3's case: a response whose record ended in the numeric error and
\* carries a payload that is not empty.
C3_Witness ==
  /\ handler = "returned"
  /\ \E i \in Records :
       /\ task[i].err = "IntError"
       /\ event[i].data # <<>>
       /\ response[i].data = event[i].data

\* C4 (as stated): no failure of one record's transformation reaches the
\* batch: my_handler never ends in a panic.
C4_BatchContained == handler # "panicked"

\* C5 (as stated): a composed line whose status has two or four digits
\* does not match the pattern and is passed through byte for byte,
\* whatever follows the byte count.
C5_StrictStatusWidth ==
  \A i \in Records :
    (Finished(i) /\ origin[i].kind = "line" /\ origin[i].status \in {ShortStatus, LongStatus}) =>
      /\ task[i].err = "RegexParseError"
      /\ slots[i].data = event[i].data

\* C6: in a transformed record the JSON numbers response and bytes have
\* the decimal value of the captured status and byte-count texts, the
\* two timestamps denote the same instant, the second one at +00:00, and
\* the payload is the JSON text of that object.
C6_RoundTrip ==
  \A i \in Records :
    Transformed(i) =>
      LET v   == task[i].value
          loc == Field(v, "@timestamp").s
          utc == Field(v, "@timestamp_utc").s
      IN  /\ U32Digits(Field(v, "response").n) = StripZeros(task[i].xs[6].text)
          /\ U32Digits(Field(v, "bytes").n) = StripZeros(task[i].xs[7].text)
          /\ Rfc3339Instant(loc) = Rfc3339Instant(utc)
          /\ SubSeq(utc, 20, 25) = Str("+00:00")
          /\ slots[i].data = to_vec(v)

\* C6's case: a transformed record whose byte count has leading zeros
\* and whose UTC date is not its local date.
C6_Witness ==
  \E i \in Records :
    /\ Transformed(i)
    /\ task[i].xs[7].text = Str("0000000000012")
    /\ SubSeq(Field(task[i].value, "@timestamp").s, 1, 10)
         # SubSeq(Field(task[i].value, "@timestamp_utc").s, 1, 10)

\* C7: the timestamp text is parsed with the colon format and then with
\* the other one, the first success is the time, and the timestamp error
\* is returned only if both fail; a line with a timestamp of the
\* catalogue, in either spelling of the offset, never ends in the
\* timestamp error, is transformed when its numbers are in order, and
\* carries the two texts of its example, the same for both spellings.
C7_DualFormats ==
  \A i \in Records :
    /\ (StageRank(task[i].pc) > 3 /\ task[i].xs # <<>> /\ task[i].xs[4].present) =>
         LET first  == parse_from_str(task[i].xs[4].text, "%:z")
             second == parse_from_str(task[i].xs[4].text, "%z")
         IN  /\ task[i].err = "DateTimeParseError" <=> (~first.ok /\ ~second.ok)
             /\ task[i].time.ok => task[i].time = (IF first.ok THEN first ELSE second)
    /\ (Finished(i) /\ origin[i].kind = "line" /\ origin[i].ts \in GoodTimestamps) =>
         /\ task[i].err # "DateTimeParseError"
         /\ WellFormed(origin[i]) => Transformed(i)
         /\ Transformed(i) =>
              /\ Field(task[i].value, "@timestamp").s = ExampleOf(origin[i].ts).local
              /\ Field(task[i].value, "@timestamp_utc").s = ExampleOf(origin[i].ts).utc

\* C7's case: a transformed line whose offset is spelled without the colon.
C7_Witness ==
  \E i \in Records :
    /\ Transformed(i)
    /\ origin[i].kind = "line"
    /\ origin[i].ts = Str("14/Dec/2017:22:16:45 +0900")
    /\ Field(task[i].value, "@timestamp").s = Str("2017-12-14T22:16:45+09:00")
    /\ Field(task[i].value, "@timestamp_utc").s = Str("2017-12-14T13:16:45+00:00")

\* What C8 says of the values: the extracted host, ident, authuser and
\* request, the status and byte count as numbers, the two timestamps of
\* the line's example, under the keys given.
C8_Values(c, v, local, utc) ==
  /\ Field(v, "host").s = c.host
  /\ Field(v, "ident").s = c.ident
  /\ Field(v, "authuser").s = c.authuser
  /\ Field(v, "request").s = c.request
  /\ U32Digits(Field(v, "response").n) = StripZeros(c.status)
  /\ U32Digits(Field(v, "bytes").n) = StripZeros(c.bytes)
  /\ Field(v, local).s = ExampleOf(c.ts).local
  /\ Field(v, utc).s = ExampleOf(c.ts).utc

\* C8 (as stated): a well-formed line is transformed into an object with
\* exactly the fields host, ident, authuser, timestamp, timestamp_utc,
\* request, response and bytes, holding the extracted values.
C8_FieldsAsStated ==
  \A i \in Records :
    (Finished(i) /\ WellFormed(origin[i])) =>
      /\ Transformed(i)
      /\ Keys(task[i].value) =
           { Str("host"), Str("ident"), Str("authuser"), Str("timestamp"),
             Str("timestamp_utc"), Str("request"), Str("response"), Str("bytes") }
      /\ C8_Values(origin[i], task[i].value, "timestamp", "timestamp_utc")

\* C8 (amended): a well-formed line is transformed into an object with
\* exactly the fields host, ident, authuser, @timestamp, @timestamp_utc,
\* request, response and bytes, holding the extracted values; the line of
\* the test gives the values of the example.
C8_FieldsRenamed ==
  \A i \in Records :
    /\ (Finished(i) /\ WellFormed(origin[i])) =>
         /\ Transformed(i)
         /\ Len(task[i].value) = 8
         /\ Keys(task[i].value) =
              { Str("host"), Str("ident"), Str("authuser"), Str("@timestamp"),
                Str("@timestamp_utc"), Str("request"), Str("response"), Str("bytes") }
         /\ C8_Values(origin[i], task[i].value, "@timestamp", "@timestamp_utc")
         /\ slots[i].data = to_vec(task[i].value)
    /\ (Finished(i) /\ event[i].data = TestLine) =>
         LET v == task[i].value
         IN  /\ Transformed(i)
             /\ Field(v, "host").s = Str("7.248.7.119")
             /\ Field(v, "ident").s = Str("-")
             /\ Field(v, "authuser").s = Str("-")
             /\ Field(v, "request").s = Str("GET /explore")
             /\ U32Digits(Field(v, "response").n) = Str("200")
             /\ U32Digits(Field(v, "bytes").n) = Str("9947")
             /\ Field(v, "@timestamp").s = Str("2017-12-14T22:16:45+09:00")
             /\ Field(v, "@timestamp_utc").s = Str("2017-12-14T13:16:45+00:00")

\* C8's case: the line of the test, transformed and in the response.
C8_Witness ==
  /\ handler = "returned"
  /\ \E i \in Records :
       /\ event[i].data = TestLine
       /\ Transformed(i)
       /\ response[i].data = to_vec(task[i].value)
       /\ Str("@timestamp") \in Keys(task[i].value)

\* C9: a stage is entered only after every earlier stage succeeded, with
\* the results of those stages in hand; the transformation stops at the
\* first stage that fails, and the error it ends with is that stage's; a
\* line with a timestamp no format accepts ends in the timestamp error
\* whatever its byte count.
C9_StageOrder ==
  \A i \in Records :
    LET tk == task[i]
        u  == from_utf8(event[i].data)
        m  == RE_captures(tk.s)
        ff == FirstFailure(event[i].data)
    IN  /\ (tk.pc \in {"captures", "parse_time", "parse_status", "build_log", "to_value", "to_vec"}
              \/ tk.err \in LogErrors \ {"UTF8Error"}) => (u.ok /\ tk.s = u.s)
        /\ (tk.pc \in {"parse_time", "parse_status", "build_log", "to_value", "to_vec"}
              \/ tk.err \in {"DateTimeParseError", "IntError"}) => (m.ok /\ tk.xs = m.xs)
        /\ (tk.pc \in {"parse_status", "build_log", "to_value", "to_vec"}
              \/ tk.err = "IntError") => tk.time.ok
        /\ tk.pc \in {"to_value", "to_vec"} =>
              (parse_u32(tk.xs[6].text).ok /\ parse_u32(tk.xs[7].text).ok)
        /\ tk.err # "none" => (tk.err = ff /\ tk.pc \in {"respond", "done"})
        /\ tk.err = "UTF8Error" => tk.s = <<>>
        /\ tk.err \in {"UTF8Error", "RegexParseError"} => tk.xs = <<>>
        /\ tk.err \in {"UTF8Error", "RegexParseError", "DateTimeParseError"} => ~tk.time.ok
        /\ tk.err # "none" => (tk.log = <<>> /\ tk.value = <<>> /\ tk.out = <<>>)
        /\ (tk.pc \in {"respond", "done"} /\ tk.err = "none") => ff = "none"
        /\ tk.pc = "panicked" => ff = "panic"
        /\ (Finished(i) /\ origin[i].kind = "line" /\ origin[i].ts \in BadTimestamps
              /\ origin[i].status \in GoodStatuses) => tk.err = "DateTimeParseError"

\* C9's case: a line with a timestamp no format accepts and a byte count
\* above u32::MAX, ended in the timestamp error.
C9_Witness ==
  \E i \in Records :
    /\ Finished(i)
    /\ origin[i].kind = "line"
    /\ origin[i].ts \in BadTimestamps
    /\ origin[i].bytes \in OverCounts
    /\ task[i].err = "DateTimeParseError"

\* C10 (as stated): a record that matched the pattern and whose
\* timestamp parsed ends in the numeric error exactly if its byte-count
\* digits denote a value above 4294967295; no transformed record carries
\* a bytes value other than the one its digits denote.
C10_OverflowOnly ==
  \A i \in Records :
    /\ (Finished(i) /\ task[i].time.ok) =>
         (task[i].err = "IntError" <=> ExceedsU32(task[i].xs[7].text))
    /\ Transformed(i) =>
         U32Digits(Field(task[i].value, "bytes").n) = StripZeros(task[i].xs[7].text)

\* C10 (amended): such a record ends in the numeric error exactly if
\* its byte-count digits denote a value above 4294967295 or its status or
\* byte count holds a decimal digit that is not an ASCII digit; a status
\* of three ASCII digits never causes the error; no transformed record
\* carries a bytes value other than the one its digits denote.
C10_OverflowOrForeignDigit ==
  \A i \in Records :
    /\ (Finished(i) /\ task[i].time.ok) =>
         /\ task[i].err = "IntError" <=>
              \/ ExceedsU32(task[i].xs[7].text)
              \/ ~AllAsciiDigits(task[i].xs[6].text)
              \/ ~AllAsciiDigits(task[i].xs[7].text)
         /\ AllAsciiDigits(task[i].xs[6].text) => parse_u32(task[i].xs[6].text).ok
    /\ Transformed(i) =>
         /\ AllAsciiDigits(task[i].xs[7].text) /\ ~ExceedsU32(task[i].xs[7].text)
         /\ U32Digits(Field(task[i].value, "bytes").n) = StripZeros(task[i].xs[7].text)

\* C10's case: a record passed through for a byte count of 4294967296,
\* the least value a u32 cannot hold.
C10_Witness ==
  \E i \in Records :
    /\ Finished(i)
    /\ task[i].time.ok
    /\ task[i].err = "IntError"
    /\ task[i].xs[7].text = Str("4294967296")
    /\ slots[i].data = event[i].data

====
